---------------------------- MODULE Spec2Model ----------------------------
(***************************************************************************)
(* A model of levi (src/levi/__init__.py): helpers over a Delta table's    *)
(* add-file manifest (skipped_stats, filters_to_sql, str_to_bytes,         *)
(* boundary_parser, delta_file_sizes, updated_partitions) and the two      *)
(* merge-based maintenance operations (kill_duplicates, type_2_scd_upsert).*)
(*                                                                         *)
(* Each component has its own specification over the shared variables:     *)
(*   SpecDedup  kill_duplicates called twice with the same key columns     *)
(*   SpecScd    one type_2_scd_upsert call                                 *)
(*   SpecStats  skipped_stats over a manifest                              *)
(*   SpecPart   updated_partitions over a manifest                         *)
(*   SpecSize   str_to_bytes over character strings                        *)
(***************************************************************************)
EXTENDS Integers, Sequences, FiniteSets, TLC

VARIABLES
    \* ---- kill_duplicates (src/levi/__init__.py:114-161)
    table,                \* rows of the Delta table, a sequence of records
    version,              \* the table's version (commits so far)
    pc,                   \* position of the caller inside kill_duplicates
    data_frame,           \* local data_frame: the rows read, then the groups
    duplication_columns,  \* the argument duplication_columns
    merges,               \* merges executed by the current call
    calls,                \* calls of kill_duplicates that have returned
    entry,                \* table contents and version when the call began
    orig,                 \* table contents before the first call
    \* ---- type_2_scd_upsert
    scd,                  \* state of one type_2_scd_upsert call
    \* ---- skipped_stats / updated_partitions
    manifest,             \* the add actions, a sequence of records
    query,                \* the arguments of the call
    result,               \* what the call returned
    \* ---- str_to_bytes
    token,                \* the argument s
    bytes                 \* what str_to_bytes returned

dedupVars == <<table, version, pc, data_frame, duplication_columns, merges,
               calls, entry, orig>>
scdVars   == <<scd>>
statsVars == <<manifest, query, result>>
sizeVars  == <<token, bytes>>
vars      == <<dedupVars, scdVars, statsVars, sizeVars>>

\* A null cell of a column (pyarrow None, SQL NULL).
Null == "null"

\* What a call that raised exception e leaves instead of a value.
Raised(e) == [raised |-> e]
HasRaised(r) == "raised" \in DOMAIN r

TypeError == "TypeError"
ValueError == "ValueError"
IndexError == "IndexError"

\* No call has been made yet.
NoCall == [op |-> "none"]

SeqsUpTo(S, n) == UNION {[1..k -> S] : k \in 0..n}

IsInjective(s) == \A i, j \in 1..Len(s) : s[i] = s[j] => i = j

(***************************************************************************)
(*                          kill_duplicates                                *)
(***************************************************************************)

\* Bounds of the tables and argument lists explored.
MaxRows == 3
MaxKeyCols == 2

\* Cell values of the key columns: two strings and null.
CellValues == {"A", "B", Null}

\* data_frame.column_names of the table under test.
column_names == {"col2", "col3"}

\* Column names a caller may pass: the table's and one it does not have.
ArgColumns == column_names \cup {"colX"}

TableRows == [col2 : CellValues, col3 : CellValues]

Tables == SeqsUpTo(TableRows, MaxRows)

ColumnLists == {s \in SeqsUpTo(ArgColumns, MaxKeyCols) : IsInjective(s)}

\* The key tuple of a row under the key columns cols.
KeyOf(row, cols) == [i \in 1..Len(cols) |-> row[cols[i]]]

\* data_frame.group_by(cols).aggregate([([], "count_all")]): one row per
\* distinct key tuple with the number of rows holding it.  pyarrow groups
\* null keys together like any other value.
GroupByCountAll(df, cols) ==
    {[key |-> k,
      count_all |-> Cardinality({i \in 1..Len(df) : KeyOf(df[i], cols) = k})] :
        k \in {KeyOf(df[i], cols) : i \in 1..Len(df)}}

\* .filter(pc.field("count_all") > 1)
FilterDuplicated(groups) == {g \in groups : g.count_all > 1}

\* source.c = target.c in the merge predicate: SQL equality, which is not
\* true when either side is NULL.
SqlEquals(a, b) == a # Null /\ b # Null /\ a = b

\* " AND ".join(f"source.{column} = target.{column}" ...) on one source row
\* and one target row.
Predicate(src, tgt, cols) ==
    \A i \in 1..Len(cols) : SqlEquals(src.key[i], tgt[cols[i]])

\* merge(source, predicate).when_matched_delete().execute(): every target
\* row matched by some source row is deleted, the others are kept as they
\* are and in their order; there is no not-matched clause.
MergeDelete_FirstMatchOnly(target, source, cols) ==
    LET Matched(t) == \E s \in source : Predicate(s, t, cols)
        hits == {i \in 1..Len(target) : Matched(target[i])}
        first == IF hits = {} THEN 0
                 ELSE CHOOSE i \in hits : \A j \in hits : i <= j
        keep == {i \in 1..Len(target) : i # first}
        RECURSIVE Pick(_)
        Pick(i) == IF i > Len(target) THEN <<>>
                   ELSE IF i \in keep THEN <<target[i]>> \o Pick(i + 1)
                   ELSE Pick(i + 1)
    IN  Pick(1)

MergeDelete(target, source, cols) ==
    LET Unmatched(t) == ~ \E s \in source : Predicate(s, t, cols)
    IN  SelectSeq(target, Unmatched)

DedupInit ==
    /\ table \in Tables
    /\ duplication_columns \in ColumnLists
    /\ version = 0
    /\ pc = "idle"
    /\ data_frame = <<>>
    /\ merges = 0
    /\ calls = 0
    /\ entry = [table |-> table, version |-> 0]
    /\ orig = table

\* Lines 127-133: the argument checks, then the read of the whole table.
KillBegin_NoEmptyCheck ==
    /\ pc = "idle"
    /\ calls < 2
    /\ entry' = [table |-> table, version |-> version]
    /\ merges' = 0
    /\ pc' = "validate"
    /\ data_frame' = table
    /\ UNCHANGED <<table, version, duplication_columns, calls, orig>>
    /\ UNCHANGED <<scdVars, statsVars, sizeVars>>

KillBegin ==
    /\ pc = "idle"
    /\ calls < 2
    /\ entry' = [table |-> table, version |-> version]
    /\ merges' = 0
    /\ IF Len(duplication_columns) = 0
       THEN /\ pc' = TypeError
            /\ data_frame' = <<>>
       ELSE /\ pc' = "validate"
            /\ data_frame' = table
    /\ UNCHANGED <<table, version, duplication_columns, calls, orig>>
    /\ UNCHANGED <<scdVars, statsVars, sizeVars>>

\* Lines 136-148: the required columns are looked up in the columns read;
\* then the rows are grouped, counted and filtered to the duplicated groups.
KillValidate ==
    /\ pc = "validate"
    /\ IF \E i \in 1..Len(duplication_columns) :
              duplication_columns[i] \notin column_names
       THEN /\ pc' = TypeError
            /\ UNCHANGED data_frame
       ELSE /\ pc' = "merge"
            /\ data_frame' = FilterDuplicated(
                                 GroupByCountAll(data_frame, duplication_columns))
    /\ UNCHANGED <<table, version, duplication_columns, merges, calls, entry, orig>>
    /\ UNCHANGED <<scdVars, statsVars, sizeVars>>

\* Lines 150-161: the merge, executed against the table as it is now; it
\* commits a new version.
KillMerge ==
    /\ pc = "merge"
    /\ table' = MergeDelete(table, data_frame, duplication_columns)
    /\ version' = version + 1
    /\ merges' = merges + 1
    /\ pc' = "done"
    /\ UNCHANGED <<data_frame, duplication_columns, calls, entry, orig>>
    /\ UNCHANGED <<scdVars, statsVars, sizeVars>>

\* The call returns and the caller may call again with the same columns.
KillReturn ==
    /\ pc = "done"
    /\ calls' = calls + 1
    /\ pc' = "idle"
    /\ UNCHANGED <<table, version, data_frame, duplication_columns, merges,
                   entry, orig>>
    /\ UNCHANGED <<scdVars, statsVars, sizeVars>>

DedupNext == KillBegin \/ KillValidate \/ KillMerge \/ KillReturn


(***************************************************************************)
(*                skipped_stats, filters_to_sql, filter_to_sql             *)
(***************************************************************************)

\* Bounds of the manifests and filter lists explored.
MaxStatsFiles == 2
MaxFilters == 2

\* min.a / max.a of a file, and the values filters compare with.
StatValues == {0, 2}
FilterValues == {0, 1, 2}
FileSizes == {1, 2}
Operators == {"=", "<", "<=", ">", ">="}

\* A statistics cell: <<v>> holds v, <<>> is null.
NullStat == <<>>
StatCells == {<<v>> : v \in StatValues} \cup {NullStat}

\* One row of get_add_actions(flatten=True) for a table with one column a
\* (min and max are the cells `min.a` and `max.a`).  The statistics of a file
\* are null when the file has no non-null value of a.
StatsFiles ==
    {f \in [size_bytes : FileSizes, min : StatCells, max : StatCells] :
        \/ f.min = NullStat /\ f.max = NullStat
        \/ f.min # NullStat /\ f.max # NullStat /\ f.min[1] <= f.max[1]}

Filters == [col : {"a"}, operator : Operators, val : FilterValues]

\* One comparison of the expression text: `stat.col` cmp val.
Atom(stat, col, cmp, val) == [stat |-> stat, col |-> col, cmp |-> cmp, val |-> val]

\* The expression text of one filter: the comparisons it joins with "and".
Expr(atoms) == [atoms |-> atoms]

\* filter_to_sql(filter): the parenthesised expression text; the ValueError
\* of line 43 for an operator it cannot parse.
filter_to_sql_MaxForLess(filter) ==
    LET col == filter.col
        val == filter.val
    IN  CASE filter.operator = "="  -> Expr(<<Atom("min", col, "<=", val),
                                              Atom("max", col, ">=", val)>>)
          [] filter.operator = "<"  -> Expr(<<Atom("max", col, "<", val)>>)
          [] filter.operator = "<=" -> Expr(<<Atom("min", col, "<=", val)>>)
          [] filter.operator = ">"  -> Expr(<<Atom("max", col, ">", val)>>)
          [] filter.operator = ">=" -> Expr(<<Atom("max", col, ">=", val)>>)
          [] OTHER -> Raised(ValueError)

filter_to_sql(filter) ==
    LET col == filter.col
        val == filter.val
    IN  CASE filter.operator = "="  -> Expr(<<Atom("min", col, "<=", val),
                                              Atom("max", col, ">=", val)>>)
          [] filter.operator = "<"  -> Expr(<<Atom("min", col, "<", val)>>)
          [] filter.operator = "<=" -> Expr(<<Atom("min", col, "<=", val)>>)
          [] filter.operator = ">"  -> Expr(<<Atom("max", col, ">", val)>>)
          [] filter.operator = ">=" -> Expr(<<Atom("max", col, ">=", val)>>)
          [] OTHER -> Raised(ValueError)

\* filters_to_sql(filters): the expressions of the filters joined by " and ",
\* as the sequence of the joined expressions; the empty sequence is the
\* empty string "" that joining no expression gives.
filters_to_sql(filters) ==
    LET res == [k \in 1..Len(filters) |-> filter_to_sql(filters[k])]
    IN  IF \E k \in 1..Len(res) : HasRaised(res[k]) THEN Raised(ValueError)
        ELSE [joined |-> res]

\* One comparison evaluated on one row of the add actions, as pandas does:
\* a comparison with a null (NaN) cell is false.
EvalAtom(atom, file) ==
    LET cell == file[atom.stat]
    IN  /\ cell # NullStat
        /\ CASE atom.cmp = "<"  -> cell[1] < atom.val
             [] atom.cmp = "<=" -> cell[1] <= atom.val
             [] atom.cmp = ">"  -> cell[1] > atom.val
             [] atom.cmp = ">=" -> cell[1] >= atom.val

\* df.query(expr): the indices of the rows on which expr is true.  pandas
\* raises ValueError("expr cannot be an empty string") on "".
Query(df, expr) ==
    IF expr.joined = <<>> THEN Raised(ValueError)
    ELSE [rows |-> {i \in 1..Len(df) :
                      \A k \in 1..Len(expr.joined) :
                          \A n \in 1..Len(expr.joined[k].atoms) :
                              EvalAtom(expr.joined[k].atoms[n], df[i])}]

SizeSum(df, rows) ==
    LET RECURSIVE Go(_)
        Go(i) == IF i > Len(df) THEN 0
                 ELSE (IF i \in rows THEN df[i].size_bytes ELSE 0) + Go(i + 1)
    IN  Go(1)

\* skipped_stats(delta_table, filters): the dictionary returned, with the
\* local res (the rows that survive the query) kept beside it.
skipped_stats(df, filters) ==
    LET total_files == Len(df)
        total_bytes == SizeSum(df, 1..Len(df))
        expr == filters_to_sql(filters)
        res == IF HasRaised(expr) THEN expr ELSE Query(df, expr)
    IN  IF HasRaised(res) THEN res
        ELSE [num_files |-> total_files,
              num_files_skipped |-> total_files - Cardinality(res.rows),
              num_bytes_skipped |-> total_bytes - SizeSum(df, res.rows),
              res |-> res.rows]

StatsInit ==
    /\ manifest \in SeqsUpTo(StatsFiles, MaxStatsFiles)
    /\ query = NoCall
    /\ result = NoCall

\* A call skipped_stats(delta_table, filters).
SkippedStats ==
    /\ query = NoCall
    /\ \E filters \in SeqsUpTo(Filters, MaxFilters) :
          /\ query' = [op |-> "skipped_stats", filters |-> filters]
          /\ result' = skipped_stats(manifest, filters)
    /\ UNCHANGED manifest
    /\ UNCHANGED <<dedupVars, scdVars, sizeVars>>

StatsNext == SkippedStats

(***************************************************************************)
(*                             str_to_bytes                                *)
(***************************************************************************)

\* Bound of the strings explored; a string is a sequence of characters.
MaxTokenLen == 4

\* The character U+0663, ARABIC-INDIC DIGIT THREE, written by its code point.
ArabicIndicThree == "U+0663"

\* The characters strings are drawn from: digits, among them one that is
\* not ASCII, the letters of the units and a letter of no unit.
Chars == {"0", "1", "7", ArabicIndicThree, "b", "k", "m", "g", "t", "x"}

Tokens == SeqsUpTo(Chars, MaxTokenLen)

\* The characters \d matches in a str pattern: every Unicode decimal digit
\* (category Nd), not only 0-9.  ArabicIndicThree stands for those outside
\* ASCII.
AsciiDigits == {"0", "1", "2", "3", "4", "5", "6", "7", "8", "9"}
Digits == AsciiDigits \cup {ArabicIndicThree}

\* The value int() gives a digit: a Unicode decimal digit counts as its
\* decimal value.
DigitValue(c) ==
    CASE c = "0" -> 0 [] c = "1" -> 1 [] c = "2" -> 2 [] c = "3" -> 3
      [] c = "4" -> 4 [] c = "5" -> 5 [] c = "6" -> 6 [] c = "7" -> 7
      [] c = "8" -> 8 [] c = "9" -> 9 [] c = ArabicIndicThree -> 3

\* Byte counts exceed the integers of the model checker; a count is held as
\* its digits in base 1000, least significant first, without leading zeros
\* (0 is <<>>).  Python's integers are unbounded, so nothing overflows.
RECURSIVE Limbs(_)
Limbs(n) == IF n = 0 THEN <<>> ELSE <<n % 1000>> \o Limbs(n \div 1000)

RECURSIVE Trim(_)
Trim(big) ==
    IF big # <<>> /\ big[Len(big)] = 0 THEN Trim(SubSeq(big, 1, Len(big) - 1))
    ELSE big

RECURSIVE TimesCarry(_, _, _)
TimesCarry(n, big, carry) ==
    IF big = <<>> THEN Limbs(carry)
    ELSE LET p == n * Head(big) + carry
         IN  <<p % 1000>> \o TimesCarry(n, Tail(big), p \div 1000)

\* n * big for an integer n >= 0.
BigTimes(n, big) == Trim(TimesCarry(n, big, 0))

\* Lines 63-66.
kilobyte == <<0, 1>>
megabyte == <<0, 0, 1>>
gigabyte == <<0, 0, 0, 1>>
terabyte == <<0, 0, 0, 0, 1>>

\* re.split('(\d+)', s): the pieces of s between its maximal runs of digits,
\* with each run (the captured group) between them.
RECURSIVE re_split_digits(_)
re_split_digits(s) ==
    LET digitAt == {i \in 1..Len(s) : s[i] \in Digits}
    IN  IF digitAt = {} THEN <<s>>
        ELSE LET i == CHOOSE a \in digitAt : \A b \in digitAt : a <= b
                 after == {k \in i..Len(s) : s[k] \notin Digits}
                 j == IF after = {} THEN Len(s)
                      ELSE (CHOOSE a \in after : \A b \in after : a <= b) - 1
             IN  <<SubSeq(s, 1, i - 1), SubSeq(s, i, j)>>
                 \o re_split_digits(SubSeq(s, j + 1, Len(s)))

\* int(digits) for a non-empty run of decimal digits.
RECURSIVE int(_)
int(digits) ==
    IF Len(digits) = 0 THEN 0
    ELSE 10 * int(SubSeq(digits, 1, Len(digits) - 1))
         + DigitValue(digits[Len(digits)])

\* str_to_bytes(s).  parts[1] and parts[2] of the code are the 2nd and 3rd
\* elements here (Python counts from 0).
str_to_bytes(s) ==
    LET parts == re_split_digits(s)
    IN  IF Len(parts) < 3 THEN Raised(IndexError)
        ELSE LET num == int(parts[2])
                 units == parts[3]
             IN  CASE units = <<"b">> -> [value |-> Limbs(num)]
                   [] units = <<"k", "b">> -> [value |-> BigTimes(num, kilobyte)]
                   [] units = <<"m", "b">> -> [value |-> BigTimes(num, megabyte)]
                   [] units = <<"g", "b">> -> [value |-> BigTimes(num, gigabyte)]
                   [] units = <<"t", "b">> -> [value |-> BigTimes(num, terabyte)]
                   [] OTHER -> Raised(ValueError)

SizeInit ==
    /\ token = NoCall
    /\ bytes = NoCall

\* A call str_to_bytes(s).
StrToBytes ==
    /\ token = NoCall
    /\ \E s \in Tokens :
          /\ token' = [s |-> s]
          /\ bytes' = str_to_bytes(s)
    /\ UNCHANGED <<dedupVars, scdVars, statsVars>>

SizeNext == StrToBytes

SizeIdle == token = NoCall /\ bytes = NoCall

(***************************************************************************)
(*                          type_2_scd_upsert                              *)
(* The function is called by src/tests/test_public_interface.py but is not *)
(* part of src/levi/__init__.py; it is modelled from section 4.6 of the    *)
(* specification and from the calls and expectations of the tests.         *)
(***************************************************************************)

\* Bound of the base tables explored.
MaxScdRows == 2

\* The cells of the columns.  Effective and end values are opaque to the
\* upsert, which only copies them.
ScdKeys == {"k1", "k2"}
AttrValues == {"A", "B"}
BaseEffective == {"t1"}
BaseEnd == {"t1"}
NewEffective == {"t2", "t3"}

\* The columns of a complete base table and of a complete updates table.
BaseColumns == {"pkey", "attr1", "attr2", "is_current", "effective_time", "end_time"}
UpdatesColumns == {"pkey", "attr1", "attr2", "effective_time"}

\* A table has all its columns or lacks one of them, and at most one of the
\* two tables of a call is incomplete.
BaseSchemas == {BaseColumns} \cup {BaseColumns \ {c} : c \in BaseColumns}
UpdatesSchemas == {UpdatesColumns} \cup {UpdatesColumns \ {c} : c \in UpdatesColumns}
SchemaPairs ==
    {p \in BaseSchemas \X UpdatesSchemas : p[1] = BaseColumns \/ p[2] = UpdatesColumns}

\* A row of a table with the given columns: the row without its other cells.
Project(row, columns) == [c \in columns |-> row[c]]

\* Rows of a complete base table: a current row has no end, a historical row
\* has one.
CompleteBaseRows ==
    {r \in [pkey : ScdKeys, attr1 : AttrValues, attr2 : {"A"},
            is_current : BOOLEAN, effective_time : BaseEffective,
            end_time : BaseEnd \cup {Null}] :
        r.is_current <=> r.end_time = Null}

BaseRows(columns) == {Project(r, columns) : r \in CompleteBaseRows}

CompleteUpdateRows ==
    [pkey : ScdKeys, attr1 : AttrValues, attr2 : AttrValues,
     effective_time : NewEffective]

\* Update batches hold at most one row per primary key: what several rows of
\* one key do is left to the merge engine (section 4.6).
CompleteBatches ==
    {b \in SeqsUpTo(CompleteUpdateRows, Cardinality(ScdKeys)) :
        \A i, j \in 1..Len(b) : b[i].pkey = b[j].pkey => i = j}

\* The batches of an updates table with the given columns.
BatchesOf ==
    [columns \in UpdatesSchemas |->
        {[i \in 1..Len(b) |-> Project(b[i], columns)] : b \in CompleteBatches}]

Batches(columns) == BatchesOf[columns]

\* attr_col_names of the call.
AttrLists == {<<"attr1">>, <<"attr1", "attr2">>}

Range(f) == {f[i] : i \in DOMAIN f}

\* The columns the call requires of the base table and of the updates.
RequiredBaseColumns_NoEffective(attr_col_names) ==
    {"pkey"} \cup Range(attr_col_names) \cup {"is_current", "end_time"}

RequiredBaseColumns(attr_col_names) ==
    {"pkey"} \cup Range(attr_col_names) \cup {"is_current", "effective_time", "end_time"}

RequiredUpdatesColumns(attr_col_names) ==
    {"pkey"} \cup Range(attr_col_names) \cup {"effective_time"}

\* The two column checks made before the merge.
ColumnsValid(base_columns, updates_columns, attr_col_names) ==
    /\ RequiredBaseColumns(attr_col_names) \subseteq base_columns
    /\ RequiredUpdatesColumns(attr_col_names) \subseteq updates_columns

\* Some tracked attribute of the base row differs from the incoming row's.
AttrsDiffer(base, upd, attr_col_names) ==
    \E k \in 1..Len(attr_col_names) : base[attr_col_names[k]] # upd[attr_col_names[k]]

\* The current rows of the base table with the primary key of upd.
CurrentMatches(base_table, upd) ==
    {i \in 1..Len(base_table) :
        base_table[i].pkey = upd.pkey /\ base_table[i].is_current = TRUE}

\* The incoming rows that supersede row i of the base table.
Superseding(base_table, i, updates, attr_col_names) ==
    {u \in 1..Len(updates) :
        /\ i \in CurrentMatches(base_table, updates[u])
        /\ AttrsDiffer(base_table[i], updates[u], attr_col_names)}

\* Re-supersede branch: is_current = false, end = the incoming effective value.
SupersedeRow_KeepEffective(row, upd) ==
    [row EXCEPT !.is_current = FALSE, !.end_time = row.effective_time]

SupersedeRow_StillCurrent(row, upd) ==
    [row EXCEPT !.end_time = upd.effective_time]

SupersedeRow(row, upd) ==
    [row EXCEPT !.is_current = FALSE, !.end_time = upd.effective_time]

\* Insert branch: the row has no current match, or its match was superseded.
Inserts_Always(base_table, upd, attr_col_names) == TRUE

Inserts(base_table, upd, attr_col_names) ==
    \/ CurrentMatches(base_table, upd) = {}
    \/ \E i \in CurrentMatches(base_table, upd) :
          AttrsDiffer(base_table[i], upd, attr_col_names)

\* The row inserted for upd into a table with the given columns.  A column
\* that is not tracked is carried over when the updates have it and carry
\* holds, and is null otherwise: the specification does not say which.
NewRow(upd, columns, attr_col_names, carry) ==
    [c \in columns |->
        CASE c = "pkey" -> upd.pkey
          [] c = "is_current" -> TRUE
          [] c = "effective_time" -> upd.effective_time
          [] c = "end_time" -> Null
          [] OTHER -> IF c \in Range(attr_col_names)
                         \/ (carry /\ c \in DOMAIN upd)
                      THEN upd[c] ELSE Null]

\* The merge: the three branches evaluated against one snapshot of the table.
ScdMerge(base_table, columns, updates, attr_col_names, carry) ==
    LET closed == [i \in 1..Len(base_table) |->
                     LET by == Superseding(base_table, i, updates, attr_col_names)
                     IN  IF by = {} THEN base_table[i]
                         ELSE SupersedeRow(base_table[i],
                                           updates[CHOOSE u \in by : TRUE])]
        RECURSIVE New(_)
        New(u) == IF u > Len(updates) THEN <<>>
                  ELSE IF Inserts(base_table, updates[u], attr_col_names)
                  THEN <<NewRow(updates[u], columns, attr_col_names, carry)>>
                       \o New(u + 1)
                  ELSE New(u + 1)
    IN  closed \o New(1)

ScdInit ==
    \E columns \in BaseSchemas :
        \E t \in SeqsUpTo(BaseRows(columns), MaxScdRows) :
            scd = [table |-> t, base_columns |-> columns, version |-> 0,
                   status |-> "idle", call |-> NoCall, entry |-> t]

\* One call type_2_scd_upsert(delta_table, updates_df, "pkey", attr_col_names,
\* "is_current", "effective_time", "end_time"): the two column checks, then
\* the merge, which commits a new version.
Type2ScdUpsert ==
    /\ scd.status = "idle"
    /\ \E columns \in {c \in UpdatesSchemas : <<scd.base_columns, c>> \in SchemaPairs},
          attr_col_names \in AttrLists, carry \in BOOLEAN :
         \E updates \in Batches(columns) :
            LET call == [updates |-> updates, updates_columns |-> columns,
                         attr_col_names |-> attr_col_names]
            IN     scd' = IF ColumnsValid(scd.base_columns, columns, attr_col_names)
                          THEN [scd EXCEPT
                                  !.table = ScdMerge(scd.table, scd.base_columns,
                                                     updates, attr_col_names, carry),
                                  !.version = scd.version + 1,
                                  !.status = "done",
                                  !.call = call,
                                  !.entry = scd.table]
                          ELSE [scd EXCEPT !.status = TypeError, !.call = call,
                                           !.entry = scd.table]
    /\ UNCHANGED <<dedupVars, statsVars, sizeVars>>

ScdNext == Type2ScdUpsert

\* Bounds of the sequences of calls explored: the calls made one after
\* another on the same table, and the rows of the table they start from.
MaxScdCalls == 2
MaxScdStartRows == 2

\* The rows of the table a sequence of calls starts from: complete rows of
\* any lifecycle state, also a historical row whose end is null.
SequenceBaseRows ==
    [pkey : ScdKeys, attr1 : AttrValues, attr2 : {"A"}, is_current : BOOLEAN,
     effective_time : BaseEffective, end_time : BaseEnd \cup {Null}]

\* The start of a sequence: a complete table in which every key has at most
\* one current row and every current row has a null end.  start keeps the
\* table and effective_values collects the effective values of the batches
\* received since.
ScdSequenceInit ==
    \E t \in SeqsUpTo(SequenceBaseRows, MaxScdStartRows) :
        /\ \A i, j \in 1..Len(t) :
              (t[i].pkey = t[j].pkey /\ t[i].is_current /\ t[j].is_current) => i = j
        /\ \A i \in 1..Len(t) : t[i].is_current => t[i].end_time = Null
        /\ scd = [table |-> t, base_columns |-> BaseColumns, version |-> 0,
                  status |-> "idle", call |-> NoCall, entry |-> t,
                  start |-> t, effective_values |-> {}]

\* The batches of the calls of a sequence: complete updates with at most one
\* row per key, whose rows differ in key, attr1 and effective value; the
\* effective value is a new one or null.
SequenceBatches ==
    {b \in SeqsUpTo([pkey : ScdKeys, attr1 : AttrValues, attr2 : {"A"},
                     effective_time : {"t2", Null}], Cardinality(ScdKeys)) :
        \A i, j \in 1..Len(b) : b[i].pkey = b[j].pkey => i = j}

\* One call of a sequence of calls on the same table: Type2ScdUpsert on the
\* table the call before it left.
Type2ScdUpsertInSequence ==
    /\ scd.status = "idle"
    /\ \E attr_col_names \in AttrLists, carry \in BOOLEAN, updates \in SequenceBatches :
          LET call == [updates |-> updates, updates_columns |-> UpdatesColumns,
                       attr_col_names |-> attr_col_names]
          IN  scd' = IF ColumnsValid(scd.base_columns, UpdatesColumns, attr_col_names)
                     THEN [scd EXCEPT
                             !.table = ScdMerge(scd.table, scd.base_columns,
                                                updates, attr_col_names, carry),
                             !.version = scd.version + 1,
                             !.status = "done",
                             !.call = call,
                             !.entry = scd.table,
                             !.effective_values =
                                 @ \cup {updates[i].effective_time :
                                             i \in 1..Len(updates)}]
                     ELSE [scd EXCEPT !.status = TypeError, !.call = call,
                                      !.entry = scd.table]
    /\ UNCHANGED <<dedupVars, statsVars, sizeVars>>

\* The call has returned; the caller may call again on the table as it is.
Type2ScdReturn ==
    /\ scd.status = "done"
    /\ scd.version < MaxScdCalls
    /\ scd' = [scd EXCEPT !.status = "idle", !.call = NoCall, !.entry = scd.table]
    /\ UNCHANGED <<dedupVars, statsVars, sizeVars>>

ScdSequenceNext == Type2ScdUpsertInSequence \/ Type2ScdReturn

ScdIdle == scd = NoCall

DedupIdle ==
    /\ table = <<>> /\ version = 0 /\ pc = "unused" /\ data_frame = <<>>
    /\ duplication_columns = <<>> /\ merges = 0 /\ calls = 0
    /\ entry = [table |-> <<>>, version |-> 0] /\ orig = <<>>

(***************************************************************************)
(*                            boundary_parser                              *)
(***************************************************************************)

\* Bound of the boundary strings explored.
MaxBoundaryLen == 5

\* The characters boundary strings are drawn from: the prefix characters,
\* the dash, two digits and the letters of the units b and kb.
BoundaryChars == {"<", ">", "=", "-", "0", "1", "b", "k"}

Boundaries == SeqsUpTo(BoundaryChars, MaxBoundaryLen)

\* Line 87.
ten_tb == <<0, 0, 0, 0, 10>>

\* big + 1 for a byte count big >= 0.
RECURSIVE BigPlusOne(_)
BigPlusOne(big) ==
    IF big = <<>> THEN <<1>>
    ELSE IF Head(big) < 999 THEN <<Head(big) + 1>> \o Tail(big)
    ELSE <<0>> \o BigPlusOne(Tail(big))

RECURSIVE Borrow(_)
Borrow(big) ==
    IF Head(big) > 0 THEN <<Head(big) - 1>> \o Tail(big)
    ELSE <<999>> \o Borrow(Tail(big))

\* big - 1 for a byte count big >= 0; the only negative number that arises
\* is 0 - 1, held as <<-1>>.
BigMinusOne(big) == IF big = <<>> THEN <<-1>> ELSE Trim(Borrow(big))

RECURSIVE LeqSameLen(_, _)
LeqSameLen(a, b) ==
    IF a = <<>> THEN TRUE
    ELSE IF a[Len(a)] # b[Len(b)] THEN a[Len(a)] < b[Len(b)]
    ELSE LeqSameLen(SubSeq(a, 1, Len(a) - 1), SubSeq(b, 1, Len(b) - 1))

\* a <= b on the numbers above.
BigLeq(a, b) ==
    IF a = <<-1>> THEN TRUE
    ELSE IF b = <<-1>> THEN FALSE
    ELSE IF Len(a) # Len(b) THEN Len(a) < Len(b)
    ELSE LeqSameLen(a, b)

\* s.startswith(prefix)
startswith(s, prefix) ==
    Len(s) >= Len(prefix) /\ SubSeq(s, 1, Len(prefix)) = prefix

\* s.replace(old, ""): every occurrence of old, found from the left, removed.
RECURSIVE replace(_, _)
replace(s, old) ==
    IF s = <<>> THEN <<>>
    ELSE IF startswith(s, old) THEN replace(SubSeq(s, Len(old) + 1, Len(s)), old)
    ELSE <<Head(s)>> \o replace(Tail(s), old)

\* s.split(sep) for a separator of one character.
RECURSIVE split(_, _)
split(s, sep) ==
    LET at == {i \in 1..Len(s) : s[i] = sep}
    IN  IF at = {} THEN <<s>>
        ELSE LET i == CHOOSE a \in at : \A b \in at : a <= b
             IN  <<SubSeq(s, 1, i - 1)>> \o split(SubSeq(s, i + 1, Len(s)), sep)

\* The tuple (min, max) a call returns.
Returned(min, max) == [value |-> <<min, max>>]

\* str_to_bytes(boundary.replace("<=", "")), the size every prefix branch
\* parses (lines 90, 92, 94, 96): only "<=" is ever removed.
ParsedSize(boundary) == str_to_bytes(replace(boundary, <<"<", "=">>))

\* Lines 97-99: first, second = boundary.split("-"), which raises ValueError
\* unless there are exactly two pieces; then both sizes, the first first.
Between(boundary) ==
    LET pieces == split(boundary, "-")
    IN  IF Len(pieces) # 2 THEN Raised(ValueError)
        ELSE LET first == str_to_bytes(pieces[1])
                 second == str_to_bytes(pieces[2])
             IN  IF HasRaised(first) THEN first
                 ELSE IF HasRaised(second) THEN second
                 ELSE Returned(first.value, second.value)

\* boundary_parser(boundary), lines 85-102.
boundary_parser(boundary) ==
    LET size == ParsedSize(boundary)
    IN  IF startswith(boundary, <<"<", "=">>)
        THEN IF HasRaised(size) THEN size ELSE Returned(<<>>, size.value)
        ELSE IF startswith(boundary, <<"<">>)
        THEN IF HasRaised(size) THEN size
             ELSE Returned(<<>>, BigMinusOne(size.value))
        ELSE IF startswith(boundary, <<">", "=">>)
        THEN IF HasRaised(size) THEN size ELSE Returned(size.value, ten_tb)
        ELSE IF startswith(boundary, <<">">>)
        THEN IF HasRaised(size) THEN size
             ELSE Returned(BigPlusOne(size.value), ten_tb)
        ELSE IF "-" \in Range(boundary) THEN Between(boundary)
        ELSE Raised(ValueError)

BoundaryInit ==
    /\ token = NoCall
    /\ bytes = NoCall

\* A call boundary_parser(boundary).
BoundaryParser ==
    /\ token = NoCall
    /\ \E boundary \in Boundaries :
          /\ token' = [boundary |-> boundary]
          /\ bytes' = boundary_parser(boundary)
    /\ UNCHANGED <<dedupVars, scdVars, statsVars>>

BoundaryNext == BoundaryParser

(***************************************************************************)
(*                          updated_partitions                             *)
(***************************************************************************)

MaxPartFiles == 3
MaxMillis == 2
MaxMicros == 1

\* Instants are microseconds since the epoch, 1970-01-01T00:00:00Z.  The
\* Delta log records a file's modificationTime in whole milliseconds.
FileTimes == {1000 * ms : ms \in 0..MaxMillis}

\* The instants start_time and end_time are drawn from: timezone-aware
\* datetimes at a millisecond of the log or a few microseconds after it.
Times == {t + us : t \in FileTimes, us \in 0..MaxMicros}

\* An Optional[datetime] argument: <<>> is None, <<t>> the instant t.
None == <<>>
OptionalTimes == {None} \cup {<<t>> : t \in Times}

\* The partition tuples files are written to.
PartitionValues == {<<1, "a">>, <<2, "b">>}

\* One row of get_add_actions().
PartFiles == [modification_time : FileTimes, partition_values : PartitionValues]

\* A Python float is an IEEE 754 double: a significand of 53 bits, rounded
\* to nearest, ties to even.  A double is held here as
\* [significand, exponent], the number significand / 2^exponent, with the
\* significand s in the base-1000 digits of Limbs,
\* MinSignificand <= s < SignificandLimit:
\* 2^52 = 4 503 599 627 370 496 and 2^53 = 9 007 199 254 740 992.
MinSignificand == <<496, 370, 627, 599, 503, 4>>
SignificandLimit == <<992, 740, 254, 199, 7, 9>>

RECURSIVE FromLimbs(_)
FromLimbs(big) == IF big = <<>> THEN 0 ELSE Head(big) + 1000 * FromLimbs(Tail(big))

Odd(big) == big # <<>> /\ Head(big) % 2 = 1

\* The quotient digits big[1..i] of big \div d for 0 < d <= 1024, rem being
\* carried down from the digit above.
RECURSIVE DivDigits(_, _, _, _)
DivDigits(big, d, i, rem) ==
    IF i = 0 THEN <<>>
    ELSE LET v == rem * 1000 + big[i]
         IN  DivDigits(big, d, i - 1, v % d) \o <<v \div d>>

\* big \div 2 and big \div 2^10
Half(big) == Trim(DivDigits(big, 2, Len(big), 0))
Half10(big) == Trim(DivDigits(big, 1024, Len(big), 0))

\* big \div 10^6 and big % 10^6
DivMillion(big) == SubSeq(big, 3, Len(big))
ModMillion(big) ==
    FromLimbs(SubSeq(big, 1, IF Len(big) < 2 THEN Len(big) ELSE 2))

\* The least n * 2^k, k >= 0, whose quotient by 10^6 has 53 bits; ten
\* doublings are taken at once while the quotient stays below 53 bits.
RECURSIVE ScaleUp(_, _)
ScaleUp(n, k) ==
    IF BigLeq(MinSignificand, DivMillion(n)) THEN [n |-> n, k |-> k]
    ELSE IF BigLeq(MinSignificand, DivMillion(BigTimes(1024, n)))
         THEN ScaleUp(BigTimes(2, n), k + 1)
         ELSE ScaleUp(BigTimes(1024, n), k + 10)

\* start_time.timestamp() of an aware datetime us microseconds after the
\* epoch: the seconds (self - epoch).total_seconds() = us / 10**6, a true
\* division, correctly rounded to a double.
timestamp(us) ==
    IF us = 0 THEN [significand |-> <<>>, exponent |-> 0]
    ELSE LET scaled == ScaleUp(Limbs(us), 0)
             q == DivMillion(scaled.n)
             r == ModMillion(scaled.n)
             up == 2 * r > 1000000 \/ (2 * r = 1000000 /\ Odd(q))
         IN  [significand |-> IF up THEN BigPlusOne(q) ELSE q,
              exponent |-> scaled.k]

\* n / 2^shift rounded to a significand of 53 bits: guard is the last bit
\* dropped, sticky whether any bit dropped before it was set.
RECURSIVE RoundToDouble(_, _, _, _)
RoundToDouble(n, shift, guard, sticky) ==
    IF BigLeq(SignificandLimit, n)
    THEN RoundToDouble(Half(n), shift + 1, Odd(n), sticky \/ guard)
    ELSE [significand |-> IF guard /\ (sticky \/ Odd(n)) THEN BigPlusOne(n) ELSE n,
          shift |-> shift]

\* x * 1e6 for a double x: the exact product rounded to a double.
TimesMillion(x) ==
    IF x.significand = <<>> THEN x
    ELSE LET y == RoundToDouble(<<0, 0>> \o x.significand, 0, FALSE, FALSE)
         IN  [significand |-> y.significand, exponent |-> x.exponent - y.shift]

\* big \div 2^bits and big * 2^bits
RECURSIVE ShiftRight(_, _)
ShiftRight(big, bits) ==
    IF big = <<>> \/ bits = 0 THEN big
    ELSE IF bits >= 10 THEN ShiftRight(Half10(big), bits - 10)
    ELSE ShiftRight(Half(big), bits - 1)

RECURSIVE ShiftLeft(_, _)
ShiftLeft(big, bits) ==
    IF big = <<>> \/ bits = 0 THEN big
    ELSE IF bits >= 10 THEN ShiftLeft(BigTimes(1024, big), bits - 10)
    ELSE ShiftLeft(BigTimes(2, big), bits - 1)

\* int(x) for a double x >= 0: the fraction is cut off.
Truncate(x) ==
    FromLimbs(IF x.exponent >= 0 THEN ShiftRight(x.significand, x.exponent)
              ELSE ShiftLeft(x.significand, 0 - x.exponent))

\* np.datetime64(int(start_time.timestamp() * 1e6), "us"): the instant the
\* modification times are compared with, in microseconds since the epoch.
datetime64_us(time) == Truncate(TimesMillion(timestamp(time)))

\* add_actions_df[add_actions_df["modification_time"] >= np.datetime64(...)]
FilterFromStart(df, start_time) ==
    IF start_time = None THEN df
    ELSE LET from == datetime64_us(start_time[1])
             Keep(f) == f.modification_time >= from
         IN  SelectSeq(df, Keep)

\* add_actions_df[add_actions_df["modification_time"] < np.datetime64(...)]
FilterBeforeEnd(df, end_time) ==
    IF end_time = None THEN df
    ELSE LET before == datetime64_us(end_time[1])
             Keep(f) == f.modification_time < before
         IN  SelectSeq(df, Keep)

\* df.drop_duplicates(subset=["partition_values"]): the first row of each
\* partition tuple is kept, in the order of the frame.
drop_duplicates(df) ==
    LET RECURSIVE Go(_, _)
        Go(i, seen) ==
            IF i > Len(df) THEN <<>>
            ELSE IF df[i].partition_values \in seen THEN Go(i + 1, seen)
            ELSE <<df[i]>> \o Go(i + 1, seen \cup {df[i].partition_values})
    IN  Go(1, {})

\* updated_partitions(delta_table, start_time, end_time)
updated_partitions(df, start_time, end_time) ==
    LET kept == drop_duplicates(
                    FilterBeforeEnd(FilterFromStart(df, start_time), end_time))
    IN  [i \in 1..Len(kept) |-> kept[i].partition_values]

PartInit ==
    /\ manifest \in SeqsUpTo(PartFiles, MaxPartFiles)
    /\ query = NoCall
    /\ result = NoCall

\* A call updated_partitions(delta_table, start_time, end_time).
UpdatedPartitions ==
    /\ query = NoCall
    /\ \E start_time \in OptionalTimes, end_time \in OptionalTimes :
          /\ query' = [op |-> "updated_partitions", start_time |-> start_time,
                       end_time |-> end_time]
          /\ result' = updated_partitions(manifest, start_time, end_time)
    /\ UNCHANGED manifest
    /\ UNCHANGED <<dedupVars, scdVars, sizeVars>>

PartNext == UpdatedPartitions

StatsIdle == manifest = <<>> /\ query = NoCall /\ result = NoCall

(***************************************************************************)
(*                           delta_file_sizes                              *)
(***************************************************************************)

\* Bounds of the manifests and boundary lists explored.
MaxSizeFiles == 2
MaxBoundaryList == 2

\* size_bytes of the files: 0, 999, 10^3, 10^6 - 1, 10^6, 5 * 10^8, 10^9,
\* 2 * 10^9, 2 * 10^9 + 1 and 10^13 + 1, the edges of the buckets used.
SizeValues ==
    {<<>>, <<999>>, <<0, 1>>, <<999, 999>>, <<0, 0, 1>>, <<0, 0, 500>>,
     <<0, 0, 0, 1>>, <<0, 0, 0, 2>>, <<1, 0, 0, 2>>, <<1, 0, 0, 0, 10>>}

SizeFiles == SeqsUpTo([size_bytes : SizeValues], MaxSizeFiles)

\* The boundary strings a caller passes: "<1kb", "<=1kb", ">=1kb",
\* "1kb-1mb" and "1kb", which is no boundary.
BoundaryTexts ==
    {<<"<", "1", "k", "b">>, <<"<", "=", "1", "k", "b">>,
     <<">", "=", "1", "k", "b">>, <<"1", "k", "b", "-", "1", "m", "b">>,
     <<"1", "k", "b">>}

\* The argument boundaries: None, or a list wrapped in a tuple.
BoundaryArgs == {None} \cup {<<l>> : l \in SeqsUpTo(BoundaryTexts, MaxBoundaryList)}

\* Line 52: ["<1mb", "1mb-500mb", "500mb-1gb", "1gb-2gb", ">2gb"].
default_boundaries ==
    << <<"<", "1", "m", "b">>,
       <<"1", "m", "b", "-", "5", "0", "0", "m", "b">>,
       <<"5", "0", "0", "m", "b", "-", "1", "g", "b">>,
       <<"1", "g", "b", "-", "2", "g", "b">>,
       <<">", "2", "g", "b">> >>

\* Series.between(min, max): inclusive on both ends (pandas' default).
between_ExclusiveMax(size, min, max) ==
    BigLeq(min, size) /\ BigLeq(size, max) /\ size # max

between(size, min, max) == BigLeq(min, size) /\ BigLeq(size, max)

\* len(df[df['size_bytes'].between(min, max)])
CountBetween(df, min, max) ==
    Cardinality({i \in 1..Len(df) : between(df[i].size_bytes, min, max)})

\* f"num_files_{boundary}"
FileCountKey(boundary) ==
    <<"n", "u", "m", "_", "f", "i", "l", "e", "s", "_">> \o boundary

\* res[key] = value on a dict, held as the sequence of its items in insertion
\* order: a key already present keeps its place.
DictSet(res, key, value) ==
    IF \E i \in 1..Len(res) : res[i].key = key
    THEN [i \in 1..Len(res) |->
            IF res[i].key = key THEN [key |-> key, value |-> value] ELSE res[i]]
    ELSE Append(res, [key |-> key, value |-> value])

\* Lines 55-58: the loop over the boundaries from the k-th on.
RECURSIVE FileSizesLoop(_, _, _, _)
FileSizesLoop(df, boundaries, k, res) ==
    IF k > Len(boundaries) THEN [value |-> res]
    ELSE LET parsed == boundary_parser(boundaries[k])
         IN  IF HasRaised(parsed) THEN parsed
             ELSE FileSizesLoop(df, boundaries, k + 1,
                      DictSet(res, FileCountKey(boundaries[k]),
                              CountBetween(df, parsed.value[1], parsed.value[2])))

\* delta_file_sizes(delta_table, boundaries), lines 50-59.
delta_file_sizes(df, boundaries) ==
    FileSizesLoop(df, IF boundaries = None THEN default_boundaries
                      ELSE boundaries[1], 1, <<>>)

FileSizesInit ==
    /\ manifest \in SizeFiles
    /\ query = NoCall
    /\ result = NoCall

\* A call delta_file_sizes(delta_table, boundaries).
DeltaFileSizes ==
    /\ query = NoCall
    /\ \E boundaries \in BoundaryArgs :
          /\ query' = [op |-> "delta_file_sizes", boundaries |-> boundaries]
          /\ result' = delta_file_sizes(manifest, boundaries)
    /\ UNCHANGED manifest
    /\ UNCHANGED <<dedupVars, scdVars, sizeVars>>

FileSizesNext == DeltaFileSizes

(***************************************************************************)
(*              kill_duplicates beside a concurrent writer                 *)
(***************************************************************************)

\* What one commit of another writer makes of the table: a row deleted, or
\* a row appended.
WriterCommits(t) ==
    {SubSeq(t, 1, i - 1) \o SubSeq(t, i + 1, Len(t)) : i \in 1..Len(t)}
    \cup (IF Len(t) < MaxRows THEN {Append(t, r) : r \in TableRows} ELSE {})

\* Another writer commits between the read of line 133 and the merge of
\* lines 152-161; kill_duplicates holds no lock and re-reads nothing, and the
\* handle keeps the snapshot it has read.
ConcurrentCommit ==
    /\ pc \in {"validate", "merge"}
    /\ version = entry.version
    /\ table' \in WriterCommits(table)
    /\ version' = version + 1
    /\ UNCHANGED <<pc, data_frame, duplication_columns, merges, calls, entry, orig>>
    /\ UNCHANGED <<scdVars, statsVars, sizeVars>>

\* The rows committed to the table since the snapshot the DeltaTable handle
\* holds, when the other writer has appended only.
AppendedSince(snapshot, current) ==
    SubSeq(current, Len(snapshot) + 1, Len(current))

AppendedOnly(snapshot, current) ==
    /\ Len(snapshot) <= Len(current)
    /\ SubSeq(current, 1, Len(snapshot)) = snapshot

\* Lines 150-161 beside another writer.  merge() and execute() are called on
\* the DeltaTable handle that to_pyarrow_table() read at line 133 and that
\* nothing has refreshed: the merge is evaluated against the snapshot the
\* handle holds, entry.table, and its commit leaves in place what the other
\* writer has appended since.
KillMergeOnLoadedSnapshot_CurrentTable ==
    /\ pc = "merge"
    /\ AppendedOnly(entry.table, table)
    /\ table' = MergeDelete(table, data_frame, duplication_columns)
    /\ version' = version + 1
    /\ merges' = merges + 1
    /\ pc' = "done"
    /\ UNCHANGED <<data_frame, duplication_columns, calls, entry, orig>>
    /\ UNCHANGED <<scdVars, statsVars, sizeVars>>

KillMergeOnLoadedSnapshot ==
    /\ pc = "merge"
    /\ AppendedOnly(entry.table, table)
    /\ table' = MergeDelete(entry.table, data_frame, duplication_columns)
                    \o AppendedSince(entry.table, table)
    /\ version' = version + 1
    /\ merges' = merges + 1
    /\ pc' = "done"
    /\ UNCHANGED <<data_frame, duplication_columns, calls, entry, orig>>
    /\ UNCHANGED <<scdVars, statsVars, sizeVars>>

\* Lines 152-161 when the commit of the merge fails the engine's conflict
\* check against the other writer's commit: execute() raises, which
\* kill_duplicates passes on, and nothing is deleted.  A commit that removed
\* rows the merge has read always conflicts.
KillMergeConflict ==
    /\ pc = "merge"
    /\ version # entry.version
    /\ pc' = "CommitFailedError"
    /\ UNCHANGED <<table, version, data_frame, duplication_columns, merges,
                   calls, entry, orig>>
    /\ UNCHANGED <<scdVars, statsVars, sizeVars>>

ConcurrentDedupNext ==
    \/ KillBegin
    \/ KillValidate
    \/ ConcurrentCommit
    \/ KillMergeOnLoadedSnapshot
    \/ KillMergeConflict
    \/ KillReturn

(***************************************************************************)
(*                           Specifications                                *)
(***************************************************************************)

InitDedup == DedupInit /\ ScdIdle /\ StatsIdle /\ SizeIdle
InitScd   == ScdInit /\ DedupIdle /\ StatsIdle /\ SizeIdle
InitStats == StatsInit /\ DedupIdle /\ ScdIdle /\ SizeIdle
InitPart  == PartInit /\ DedupIdle /\ ScdIdle /\ SizeIdle
InitSize  == SizeInit /\ DedupIdle /\ ScdIdle /\ StatsIdle

SpecDedup == InitDedup /\ [][DedupNext]_vars
SpecScd   == InitScd /\ [][ScdNext]_vars
SpecStats == InitStats /\ [][StatsNext]_vars
SpecPart  == InitPart /\ [][PartNext]_vars
SpecSize  == InitSize /\ [][SizeNext]_vars

InitBoundary == BoundaryInit /\ DedupIdle /\ ScdIdle /\ StatsIdle
SpecBoundary == InitBoundary /\ [][BoundaryNext]_vars

InitFileSizes == FileSizesInit /\ DedupIdle /\ ScdIdle /\ SizeIdle
SpecFileSizes == InitFileSizes /\ [][FileSizesNext]_vars

SpecConcurrentDedup == InitDedup /\ [][ConcurrentDedupNext]_vars

InitScdSequence == ScdSequenceInit /\ DedupIdle /\ StatsIdle /\ SizeIdle
SpecScdSequence == InitScdSequence /\ [][ScdSequenceNext]_vars

(***************************************************************************)
(*                     Properties of kill_duplicates                       *)
(***************************************************************************)

\* How often row r occurs in table t, and how many rows of t have key k.
Occurrences(t, r) == Cardinality({i \in 1..Len(t) : t[i] = r})
KeyCount(t, cols, k) == Cardinality({i \in 1..Len(t) : KeyOf(t[i], cols) = k})

BadColumns ==
    \/ duplication_columns = <<>>
    \/ \E i \in 1..Len(duplication_columns) : duplication_columns[i] \notin column_names

\* C1: when a call of kill_duplicates has executed its merge, every row whose
\* key tuple occurred more than once in the table at entry is gone, every row
\* whose key tuple occurred once is still there as it was, and no row was
\* added; key cells range over the strings and null.
C1_DuplicatedKeysDeleted ==
    pc = "done" =>
        \A r \in TableRows :
            Occurrences(table, r) =
                IF KeyCount(entry.table, duplication_columns,
                            KeyOf(r, duplication_columns)) = 1
                THEN Occurrences(entry.table, r)
                ELSE 0

\* C4: a call with an empty key-column list or with a key column the table
\* does not have ends in a TypeError with no merge executed and the table
\* contents and version as at entry; a call executes at most one merge, and
\* only with a non-empty list of columns of the table.
C4_ValidationBeforeMerge ==
    /\ merges <= 1
    /\ merges = 1 => ~ BadColumns
    /\ pc \in {"merge", "done"} => ~ BadColumns
    /\ (BadColumns /\ pc # "idle") =>
          /\ pc \in {"validate", TypeError}
          /\ merges = 0
          /\ table = entry.table
          /\ version = entry.version
    /\ pc = TypeError => BadColumns

\* C4 witness: the call raised for a list whose second column is missing,
\* on a table that holds a duplicated key.
C4_Witness ==
    /\ pc = TypeError
    /\ duplication_columns = <<"col2", "colX">>
    /\ Len(table) = 3
    /\ table[1] = table[2]
    /\ table[1].col2 # Null

\* C6: the second of two successive calls with the same key columns deletes
\* no row: the table after it is the table after the first call.
C6_SecondRunDeletesNothing ==
    (calls = 1 /\ pc = "done") => table = entry.table

\* C6 witness: the second call has executed its merge after a first call
\* that deleted some rows and kept others.
C6_Witness ==
    /\ calls = 1
    /\ pc = "done"
    /\ Len(table) < Len(orig)
    /\ Len(table) > 0

(***************************************************************************)
(*                    Properties of type_2_scd_upsert                      *)
(***************************************************************************)

\* The rows the call found and the rows it appended.
OldRows == 1..Len(scd.entry)
NewRows == (Len(scd.entry) + 1)..Len(scd.table)

Tracked == Range(scd.call.attr_col_names)
BatchKeys == {scd.call.updates[u].pkey : u \in 1..Len(scd.call.updates)}

\* The current rows of key k before the call.
CurrentOf(k) == {i \in OldRows : scd.entry[i].pkey = k /\ scd.entry[i].is_current}
AtMostOneCurrent == \A k \in ScdKeys : Cardinality(CurrentOf(k)) <= 1

SameAttrs(row, upd) == \A c \in Tracked : row[c] = upd[c]

\* The rows of key k the call changed, and the rows of key k it added.
Changed(k) == {i \in OldRows : scd.entry[i].pkey = k /\ scd.table[i] # scd.entry[i]}
Added(k) == {j \in NewRows : scd.table[j].pkey = k}

IsNewCurrentRow(row, upd) ==
    /\ row.pkey = upd.pkey
    /\ row.is_current = TRUE
    /\ SameAttrs(row, upd)
    /\ row.effective_time = upd.effective_time
    /\ row.end_time = Null

OneNewCurrentRow(upd) ==
    /\ Cardinality(Added(upd.pkey)) = 1
    /\ \A j \in Added(upd.pkey) : IsNewCurrentRow(scd.table[j], upd)

\* C2: after one upsert of a batch with at most one row per key into a table
\* with at most one current row per key: for an incoming key whose tracked
\* attributes differ from its current row, exactly that row changes, to
\* is_current = false and end = the incoming effective value, and exactly one
\* current row with the incoming attributes, the incoming effective value and
\* a null end is added; for an incoming key absent from the table exactly one
\* such row is added; rows of keys not in the batch are unchanged and no row
\* of such a key is added.
C2_SupersedeAndInsert ==
    (scd.status = "done" /\ AtMostOneCurrent) =>
        /\ Len(scd.table) >= Len(scd.entry)
        /\ \A u \in 1..Len(scd.call.updates) :
              LET upd == scd.call.updates[u]
                  cur == CurrentOf(upd.pkey)
              IN  /\ (\E i \in cur : ~ SameAttrs(scd.entry[i], upd)) =>
                        /\ Changed(upd.pkey) = cur
                        /\ \A i \in cur :
                              scd.table[i] =
                                  [scd.entry[i] EXCEPT !.is_current = FALSE,
                                                       !.end_time = upd.effective_time]
                        /\ OneNewCurrentRow(upd)
                  /\ (\A i \in OldRows : scd.entry[i].pkey # upd.pkey) =>
                        OneNewCurrentRow(upd)
        /\ \A i \in OldRows : scd.entry[i].pkey \notin BatchKeys =>
                                  scd.table[i] = scd.entry[i]
        /\ \A j \in NewRows : scd.table[j].pkey \in BatchKeys

\* C2 witness: a batch of two rows was merged, one changing the attributes
\* of a key that has a current row and a historical row, one for a key the
\* table did not hold.
C2_Witness ==
    /\ scd.status = "done"
    /\ AtMostOneCurrent
    /\ Len(scd.entry) = 2
    /\ Len(scd.call.updates) = 2
    /\ Len(scd.table) = 4
    /\ \E u \in 1..2 :
          /\ CurrentOf(scd.call.updates[u].pkey) # {}
          /\ Changed(scd.call.updates[u].pkey) # {}
          /\ \A i \in OldRows : scd.entry[i].pkey = scd.call.updates[u].pkey

\* Every incoming row has a current row of its key, and every current row of
\* its key has the same tracked attributes.
AllUnchangedUpdates ==
    /\ scd.call.updates # <<>>
    /\ \A u \in 1..Len(scd.call.updates) :
          /\ CurrentOf(scd.call.updates[u].pkey) # {}
          /\ \A i \in CurrentOf(scd.call.updates[u].pkey) :
                SameAttrs(scd.entry[i], scd.call.updates[u])

\* C3: an upsert whose incoming rows all carry the tracked attributes of the
\* current row of their key leaves the table as it was: no row added, no
\* cell changed; also when only attr1 of attr1, attr2 is tracked.
C3_UnchangedAttributesNoOp ==
    (scd.status = "done" /\ AllUnchangedUpdates) => scd.table = scd.entry

\* C3 witness: two such rows were merged with only attr1 tracked, one of
\* them with another attr2 than its current row.
C3_Witness ==
    /\ scd.status = "done"
    /\ AllUnchangedUpdates
    /\ Len(scd.call.updates) = 2
    /\ scd.call.attr_col_names = <<"attr1">>
    /\ scd.base_columns = BaseColumns
    /\ scd.call.updates_columns = UpdatesColumns
    /\ \E u \in 1..2 : scd.call.updates[u].attr2 = "B"

\* The call names a column the base table or the updates do not have.
LacksBaseColumn ==
    \E c \in {"pkey", "is_current", "effective_time", "end_time"} \cup Tracked :
        c \notin scd.base_columns
LacksUpdatesColumn ==
    \E c \in {"pkey", "effective_time"} \cup Tracked :
        c \notin scd.call.updates_columns

\* C5: when the base table lacks the primary key, a tracked attribute, the
\* is-current, effective or end column, or the updates lack the primary key,
\* a tracked attribute or the effective column, the call ends in a TypeError
\* and the table is as it was: same rows, same version.
C5_MissingColumnFailsUnchanged ==
    (scd.status # "idle" /\ (LacksBaseColumn \/ LacksUpdatesColumn)) =>
        /\ scd.status = TypeError
        /\ scd.table = scd.entry
        /\ scd.version = 0

\* C5 witness: the call raised on updates without the primary key, the base
\* table being complete and holding two rows.
C5_Witness ==
    /\ scd.status = TypeError
    /\ scd.base_columns = BaseColumns
    /\ scd.call.updates_columns = UpdatesColumns \ {"pkey"}
    /\ Len(scd.call.updates) = 2
    /\ Len(scd.table) = 2

(***************************************************************************)
(*                      Properties of skipped_stats                        *)
(***************************************************************************)

\* A value x of column a satisfies the filter.
Satisfies(x, filter) ==
    CASE filter.operator = "="  -> x = filter.val
      [] filter.operator = "<"  -> x < filter.val
      [] filter.operator = "<=" -> x <= filter.val
      [] filter.operator = ">"  -> x > filter.val
      [] filter.operator = ">=" -> x >= filter.val

\* The statistics of the file admit a value that satisfies every filter.
MayMatch(file, filters) ==
    /\ file.min # NullStat
    /\ \E x \in file.min[1]..file.max[1] :
          \A k \in 1..Len(filters) : Satisfies(x, filters[k])

\* The files the result counts as skipped.
SkippedFiles == (1..Len(manifest)) \ result.res

StatsReturned == query.op = "skipped_stats" /\ ~ HasRaised(result)

\* C7: whenever skipped_stats returns, no file whose [min, max] statistics
\* admit a value satisfying every filter is among the skipped files; the
\* skipped files are those num_files_skipped and num_bytes_skipped count, and
\* num_files_skipped plus the number of surviving files is num_files.
C7_SkippingIsConservative ==
    StatsReturned =>
        /\ \A i \in 1..Len(manifest) :
              MayMatch(manifest[i], query.filters) => i \notin SkippedFiles
        /\ result.num_files = Len(manifest)
        /\ result.num_files_skipped = Cardinality(SkippedFiles)
        /\ result.num_bytes_skipped = SizeSum(manifest, SkippedFiles)
        /\ result.num_files_skipped + Cardinality(result.res) = result.num_files

\* C7 witness: two filters on a manifest of two files, the first file
\* holding a matching value and kept, the second skipped.
C7_Witness ==
    /\ StatsReturned
    /\ Len(query.filters) = 2
    /\ Len(manifest) = 2
    /\ MayMatch(manifest[1], query.filters)
    /\ manifest[2].min # NullStat
    /\ result.num_files_skipped = 1
    /\ result.num_bytes_skipped = manifest[2].size_bytes

\* C8: skipped_stats with the empty filter list returns num_files_skipped = 0
\* and num_bytes_skipped = 0, the empty list giving a predicate every file
\* matches.
C8_EmptyFilterListSkipsNothing ==
    (query.op = "skipped_stats" /\ query.filters = <<>>) =>
        /\ ~ HasRaised(result)
        /\ result.num_files_skipped = 0
        /\ result.num_bytes_skipped = 0

(***************************************************************************)
(*                    Properties of updated_partitions                     *)
(***************************************************************************)

\* The add actions whose modification time lies in [start_time, end_time).
InWindow ==
    {i \in 1..Len(manifest) :
        /\ query.start_time # None => query.start_time[1] <= manifest[i].modification_time
        /\ query.end_time # None => manifest[i].modification_time < query.end_time[1]}

\* The first add action in the window written to partition p.
FirstInWindow(p) ==
    CHOOSE i \in InWindow :
        /\ manifest[i].partition_values = p
        /\ \A j \in InWindow : manifest[j].partition_values = p => i <= j

\* C9: updated_partitions returns the partition tuples of exactly the add
\* actions with start_time <= modification_time < end_time (each bound only
\* when given; start inclusive, end exclusive), each tuple once, in the
\* order in which the selected add actions first show each tuple; with no
\* bounds these are all the distinct tuples of the manifest.
C9_PartitionsInWindowFirstSeenOrder ==
    query.op = "updated_partitions" =>
        /\ {result[n] : n \in 1..Len(result)} =
               {manifest[i].partition_values : i \in InWindow}
        /\ IsInjective(result)
        /\ \A m, n \in 1..Len(result) :
              m < n => FirstInWindow(result[m]) < FirstInWindow(result[n])

(***************************************************************************)
(*                      Properties of str_to_bytes                         *)
(***************************************************************************)

Units == {<<"b">>, <<"k", "b">>, <<"m", "b">>, <<"g", "b">>, <<"t", "b">>}

\* The decimal multiplier of a unit.
Multiplier(unit) ==
    CASE unit = <<"b">> -> <<1>>
      [] unit = <<"k", "b">> -> <<0, 1>>
      [] unit = <<"m", "b">> -> <<0, 0, 1>>
      [] unit = <<"g", "b">> -> <<0, 0, 0, 1>>
      [] unit = <<"t", "b">> -> <<0, 0, 0, 0, 1>>

\* The positions d at which s splits into d digits and a unit; a digit is
\* any decimal digit, as for the code.
SizeSplits(s) ==
    {d \in 1..Len(s) :
        /\ \A i \in 1..d : s[i] \in Digits
        /\ SubSeq(s, d + 1, Len(s)) \in Units}

\* C10: str_to_bytes returns n times the multiplier of the unit for a string
\* that is the digits of n followed by one of b, kb, mb, gb, tb, and raises
\* for every other string.
C10_SizeTokensOnly ==
    token # NoCall =>
        IF SizeSplits(token.s) # {}
        THEN \A d \in SizeSplits(token.s) :
                bytes = [value |-> BigTimes(int(SubSeq(token.s, 1, d)),
                                            Multiplier(SubSeq(token.s, d + 1,
                                                              Len(token.s))))]
        ELSE HasRaised(bytes)

(***************************************************************************)
(*                     Properties of boundary_parser                       *)
(***************************************************************************)

BoundaryCalled == "boundary" \in DOMAIN token

\* s is the digits of a number followed by a unit.
ValidSize(s) == SizeSplits(s) # {}

\* The byte value of a valid size token.
SizeOf(s) ==
    LET d == CHOOSE d \in SizeSplits(s) : TRUE
    IN  BigTimes(int(SubSeq(s, 1, d)), Multiplier(SubSeq(s, d + 1, Len(s))))

\* boundary without its first n characters.
After(boundary, n) == SubSeq(boundary, n + 1, Len(boundary))

\* The positions of a dash with a valid size token on either side.
RangeSplits(boundary) ==
    {i \in 1..Len(boundary) :
        /\ boundary[i] = "-"
        /\ ValidSize(SubSeq(boundary, 1, i - 1))
        /\ ValidSize(After(boundary, i))}

\* What the grammar gives for a boundary string: the tuple of its shape, or
\* an error when it has none of the shapes.
GrammarResult(boundary) ==
    IF startswith(boundary, <<"<", "=">>) /\ ValidSize(After(boundary, 2))
    THEN Returned(<<>>, SizeOf(After(boundary, 2)))
    ELSE IF startswith(boundary, <<"<">>) /\ ValidSize(After(boundary, 1))
    THEN Returned(<<>>, BigMinusOne(SizeOf(After(boundary, 1))))
    ELSE IF startswith(boundary, <<">", "=">>) /\ ValidSize(After(boundary, 2))
    THEN Returned(SizeOf(After(boundary, 2)), <<0, 0, 0, 0, 10>>)
    ELSE IF startswith(boundary, <<">">>) /\ ValidSize(After(boundary, 1))
    THEN Returned(BigPlusOne(SizeOf(After(boundary, 1))), <<0, 0, 0, 0, 10>>)
    ELSE IF RangeSplits(boundary) # {}
    THEN LET i == CHOOSE i \in RangeSplits(boundary) : TRUE
         IN  Returned(SizeOf(SubSeq(boundary, 1, i - 1)), SizeOf(After(boundary, i)))
    ELSE Raised(ValueError)

\* C11: boundary_parser returns (0, x) for "<=X", (0, x - 1) for "<X",
\* (x, 10^13) for ">=X", (x + 1, 10^13) for ">X" and (bytes(A), bytes(B)) for
\* "A-B", X, A and B being valid size tokens, and raises an error for every
\* string of no such shape.
C11_BoundaryGrammar ==
    BoundaryCalled =>
        IF HasRaised(GrammarResult(token.boundary))
        THEN HasRaised(bytes)
        ELSE bytes = GrammarResult(token.boundary)

\* C13: every tuple boundary_parser returns has min_bytes <= max_bytes.
C13_MinAtMostMax ==
    (BoundaryCalled /\ ~ HasRaised(bytes)) =>
        BigLeq(bytes.value[1], bytes.value[2])

(***************************************************************************)
(*                     Properties of delta_file_sizes                      *)
(***************************************************************************)

FileSizesReturned == query.op = "delta_file_sizes" /\ ~ HasRaised(result)

\* The boundaries the call counts for: the caller's, or the default list.
Supplied ==
    IF query.boundaries = None THEN default_boundaries ELSE query.boundaries[1]

\* The files with min <= size_bytes <= max for the tuple of the boundary.
FilesIn(boundary) ==
    LET tuple == GrammarResult(boundary).value
    IN  {i \in 1..Len(manifest) :
            /\ BigLeq(tuple[1], manifest[i].size_bytes)
            /\ BigLeq(manifest[i].size_bytes, tuple[2])}

\* The first place of a boundary text in the list supplied.
FirstSupplied(boundary) ==
    CHOOSE k \in 1..Len(Supplied) :
        Supplied[k] = boundary /\ \A j \in 1..Len(Supplied) : Supplied[j] = boundary => k <= j

\* C12: delta_file_sizes returns, for each boundary supplied, under the key
\* "num_files_" followed by the boundary text, the number of files with
\* min_bytes <= size_bytes <= max_bytes of the boundary, and the keys are in
\* the order in which the boundaries were supplied.
C12_CountsPerBoundaryInOrder ==
    FileSizesReturned =>
        /\ \A k \in 1..Len(Supplied) :
              \E i \in 1..Len(result.value) :
                 /\ result.value[i].key = FileCountKey(Supplied[k])
                 /\ result.value[i].value = Cardinality(FilesIn(Supplied[k]))
                 /\ \A j \in 1..Len(result.value) :
                       result.value[j].key = result.value[i].key => j = i
        /\ \A i \in 1..Len(result.value) :
              \E k \in 1..Len(Supplied) :
                 result.value[i].key = FileCountKey(Supplied[k])
        /\ \A i, j \in 1..Len(result.value) :
              i < j =>
                 \E m, n \in 1..Len(Supplied) :
                    /\ m = FirstSupplied(Supplied[m])
                    /\ n = FirstSupplied(Supplied[n])
                    /\ m < n
                    /\ result.value[i].key = FileCountKey(Supplied[m])
                    /\ result.value[j].key = FileCountKey(Supplied[n])

\* C12 witness: ">=1kb" then "<=1kb" on a file of 1000 bytes, which both
\* boundaries count, and a file of 999 bytes, which only the second counts.
C12_Witness ==
    /\ FileSizesReturned
    /\ query.boundaries = << << <<">", "=", "1", "k", "b">>,
                               <<"<", "=", "1", "k", "b">> >> >>
    /\ manifest = <<[size_bytes |-> <<0, 1>>], [size_bytes |-> <<999>>]>>
    /\ result.value =
          <<[key |-> FileCountKey(<<">", "=", "1", "k", "b">>), value |-> 1],
            [key |-> FileCountKey(<<"<", "=", "1", "k", "b">>), value |-> 2]>>

RECURSIVE SumOfCounts(_)
SumOfCounts(items) ==
    IF items = <<>> THEN 0 ELSE Head(items).value + SumOfCounts(Tail(items))

\* The files of at least 0 bytes and fewer than the sentinel's.
BelowSentinel ==
    {i \in 1..Len(manifest) :
        /\ BigLeq(<<>>, manifest[i].size_bytes)
        /\ ~ BigLeq(<<0, 0, 0, 0, 10>>, manifest[i].size_bytes)}

\* C16: with the default boundary list every file of at least 0 bytes and
\* fewer than the sentinel's is counted in exactly one bucket, so that the
\* five counts sum to the number of files when all files are such.
C16_DefaultBucketsPartition ==
    (FileSizesReturned /\ query.boundaries = None) =>
        /\ \A i \in BelowSentinel :
              Cardinality({k \in 1..Len(default_boundaries) :
                              i \in FilesIn(default_boundaries[k])}) = 1
        /\ BelowSentinel = 1..Len(manifest) =>
              SumOfCounts(result.value) = Len(manifest)

(***************************************************************************)
(*          Properties of kill_duplicates beside a concurrent writer       *)
(***************************************************************************)

\* The step in which the merge of kill_duplicates is executed.
MergeStep == pc = "merge" /\ pc' = "done"

\* The rows the step deletes from the table.
DeletedByMerge ==
    {r \in TableRows : Occurrences(table', r) < Occurrences(table, r)}

\* C14: also when another writer has committed between the read and the
\* merge, every row the merge deletes is a row of the table snapshot the
\* merge is applied to (the one the handle has read) whose key tuple occurs
\* more than once in that snapshot; no row with a key tuple unique in it,
\* and no row committed after it, is deleted.
C14_MergeDeletesOnlyDuplicatedKeys ==
    [][MergeStep =>
          \A r \in DeletedByMerge :
             /\ KeyCount(entry.table, duplication_columns,
                         KeyOf(r, duplication_columns)) > 1
             /\ Occurrences(table, r) - Occurrences(table', r)
                    <= Occurrences(entry.table, r)]_vars

\* C14 witness: the table read held two rows of key "A"; another writer then
\* appended a third row of that key, and the merge has deleted the two rows
\* of the snapshot and left the appended one.
C14_Witness ==
    /\ pc = "done"
    /\ duplication_columns = <<"col3">>
    /\ version = entry.version + 2
    /\ entry.table = <<[col2 |-> "A", col3 |-> "A"], [col2 |-> "A", col3 |-> "A"]>>
    /\ table = <<[col2 |-> "B", col3 |-> "A"]>>

(***************************************************************************)
(*            Properties of successive type_2_scd_upsert calls             *)
(***************************************************************************)

\* The rows of the table that are current for key k.
CurrentRows(k) ==
    {i \in 1..Len(scd.table) : scd.table[i].pkey = k /\ scd.table[i].is_current}

\* Row i of the table before the call is still there with its key, its
\* attributes and its effective value.
RowKept(i) ==
    /\ i <= Len(scd.table)
    /\ scd.table[i].pkey = scd.entry[i].pkey
    /\ scd.table[i].attr1 = scd.entry[i].attr1
    /\ scd.table[i].attr2 = scd.entry[i].attr2
    /\ scd.table[i].effective_time = scd.entry[i].effective_time

\* The conclusion of C15 on the table as it is.
LifecycleHolds ==
    /\ \A k \in ScdKeys : Cardinality(CurrentRows(k)) <= 1
    /\ \A i \in 1..Len(scd.table) :
          scd.table[i].is_current => scd.table[i].end_time = Null
    /\ \A i \in 1..Len(scd.table) :
          ~ scd.table[i].is_current => scd.table[i].end_time # Null
    /\ scd.status # "idle" => \A i \in 1..Len(scd.entry) : RowKept(i)

\* C15 as stated: from a table with at most one current row per key whose
\* current rows have no end, after any sequence of upserts with at most one
\* row per key: every key has at most one current row, every current row has
\* a null end, every historical row has an end, and every row that existed
\* before a call is still there after it with its key, attributes and
\* effective value.
C15_LifecycleInvariant == scd.version > 0 => LifecycleHolds

\* Every historical row of the table the sequence started from has an end.
StartHistoryClosed ==
    \A i \in 1..Len(scd.start) :
        ~ scd.start[i].is_current => scd.start[i].end_time # Null

\* C15 amended: from a table with at most one current row per key whose
\* current rows have no end and whose historical rows have one, after any
\* sequence of upserts with at most one row per key and a non-null effective
\* value in every row: every key has at most one current row, every current
\* row has a null end, every historical row has an end, and every row that
\* existed before a call is still there after it with its key, attributes
\* and effective value.
C15_LifecycleFromClosedHistory ==
    (StartHistoryClosed /\ Null \notin scd.effective_values) => LifecycleHolds

\* C15 witness: from a historical row with an end and the current row of the
\* same key, the first call has superseded the current row and the second
\* call the row the first one inserted.
C15_Witness ==
    /\ StartHistoryClosed
    /\ Null \notin scd.effective_values
    /\ Len(scd.start) = 2
    /\ ~ scd.start[1].is_current /\ scd.start[2].is_current
    /\ scd.status = "done"
    /\ scd.version = 2
    /\ Len(scd.table) = 4
    /\ \A i \in 1..4 : scd.table[i].pkey = "k1"
    /\ ~ scd.table[2].is_current /\ scd.table[2].end_time = "t2"
    /\ ~ scd.table[3].is_current /\ scd.table[3].end_time = scd.table[4].effective_time
    /\ scd.table[4].is_current
    /\ scd.entry[3].is_current

=============================================================================
